---- MODULE Spec2Model ----
(***************************************************************************)
(* A model of balloc (src/src/lib.rs): the Balloc global allocator, its    *)
(* thread-local page cache LOCAL, the Page / Head / HeadOwned headers and  *)
(* the System fallback allocator it forwards to.                           *)
(***************************************************************************)
EXTENDS Integers, Sequences, FiniteSets, TLC

(* ------------------------------ bounds -------------------------------- *)
\* number of threads calling the allocator
NumThreads == 2
\* number of 4096-byte regions the memory mapper can supply before it fails
MaxPages == 2
\* number of blocks the callers hold at once, and of addresses the fallback
\* allocator hands out
MaxBlocks == 1

Threads == 1..NumThreads

\* request sizes the callers draw from: both sides of the 512-byte ceiling
\* (512, 513), two sizes one byte apart that fall in different classes
\* (40, 41) and two sizes of one class (41, 48)
Sizes == {40, 41, 48, 512, 513}

(* ------------------------- program constants -------------------------- *)
\* !0usize, the all-ones word, written as the signed value of that word: it is
\* only ever stored and compared, never used in arithmetic
USIZE_MAX == -1
U16_MAX == 65535
PAGE_SIZE == 4096
\* mem::size_of::<Head>() on a 64-bit target: u8, AtomicBool, AtomicUsize
HEAD_SIZE == 16
\* mem::size_of::<HeadOwned>() on a 64-bit target: u16, u16, MmapMut (a
\* pointer and a length)
HEAD_OWNED_SIZE == 24
PAGE_BUF_SIZE == PAGE_SIZE - HEAD_SIZE - HEAD_OWNED_SIZE
HEAD_OFFSET == PAGE_SIZE - HEAD_SIZE
HEAD_OWNED_OFFSET == PAGE_SIZE - HEAD_SIZE - HEAD_OWNED_SIZE
UNIT_SIZE == 8
MAX_SMALL_SLOT == 64
MAX_ALLOC_SIZE == MAX_SMALL_SLOT * UNIT_SIZE

NULL == 0
\* Option::None of a LOCAL cell (a page is named by its index in pages, 1..)
None == 0

(* --------------------------- pure functions --------------------------- *)
\* get_slot_size with the remainder test dropped: always rounds past the size
get_slot_size_plus_one(size) == (size \div UNIT_SIZE) + 1

\* get_slot_size: size / UNIT_SIZE + if size % UNIT_SIZE == 0 {0} else {1}
get_slot_size(size) ==
    (size \div UNIT_SIZE) + (IF size % UNIT_SIZE = 0 THEN 0 ELSE 1)

\* the routing test written against the page size instead of the ceiling
IsLarge_page(size) == size > PAGE_SIZE

\* the test `layout.size() > MAX_ALLOC_SIZE` that routes a request to the
\* fallback allocator
IsLarge(size) == size > MAX_ALLOC_SIZE

\* the address of the i-th region the memory mapper hands out (page aligned)
PageBase(i) == i * PAGE_SIZE

\* the mask inverted: the bits below the page size are the ones kept
PageRef_of_low(ptr) == ptr % PAGE_SIZE

\* PageRef::of: ptr & PAGE_MASK, PAGE_MASK = !(PAGE_SIZE - 1); PAGE_SIZE is a
\* power of two, so the bits cleared are the remainder of ptr by PAGE_SIZE
PageRef_of(ptr) == ptr - (ptr % PAGE_SIZE)

\* Page::new with the shared flag written as false
Page_new_unowned(slot_size) ==
    [ slot_size       |-> slot_size,
      is_owned        |-> FALSE,
      next_free       |-> USIZE_MAX,
      length          |-> 0,
      owned_next_free |-> U16_MAX,
      mapped          |-> TRUE ]

\* Page::new: the headers written into a fresh region
Page_new(slot_size) ==
    [ slot_size       |-> slot_size,
      is_owned        |-> TRUE,
      next_free       |-> USIZE_MAX,
      length          |-> 0,
      owned_next_free |-> U16_MAX,
      mapped          |-> TRUE ]

\* PageRef::max_len
max_len(page) == PAGE_BUF_SIZE \div page.slot_size

(* ------------------------ the fallback allocator ---------------------- *)
\* Addresses the System allocator hands out: 16-byte aligned, outside every
\* mapped page, far enough apart that blocks of any size in Sizes are disjoint.
FbAddr(i) == (MaxPages + i) * PAGE_SIZE + 2 * UNIT_SIZE
FbAddrs == { FbAddr(i) : i \in 1..MaxBlocks }

\* A block's content: bytes [0, len) hold the byte pattern pat, the bytes
\* from len on are indeterminate.
Uninit == [pat |-> "none", len |-> 0]
\* no block at this address
NoBlock == [pat |-> "free", len |-> 0]
Zeroed(n) == [pat |-> "zero", len |-> n]
Truncate(c, n) == IF c.len <= n THEN c ELSE [c EXCEPT !.len = n]

FbFree(h) == { a \in FbAddrs : h[a] = NoBlock }

\* System.alloc / System.alloc_zeroed: null, or a fresh block of `size` bytes
Fb_alloc(h, size, zero) ==
    { [ret |-> NULL, heap |-> h] } \cup
    { [ret |-> a,
       heap |-> [h EXCEPT ![a] = IF zero THEN Zeroed(size) ELSE Uninit]]
      : a \in FbFree(h) }

\* System.dealloc of a block it holds
Fb_dealloc(h, ptr) == [h EXCEPT ![ptr] = NoBlock]

\* System.realloc: null (old block untouched), the block resized in place, or
\* the block moved; the first min(old, new) bytes are kept
Fb_realloc(h, ptr, new_size) ==
    LET kept == Truncate(h[ptr], new_size)
    IN  { [ret |-> NULL, heap |-> h] } \cup
        { [ret |-> ptr, heap |-> [h EXCEPT ![ptr] = kept]] } \cup
        { [ret |-> a, heap |-> [h EXCEPT ![ptr] = NoBlock, ![a] = kept]]
          : a \in FbFree(h) }

\* one call of the fallback allocator, as the facade made it
FbCall(op, ptr, size, new_size, ret) ==
    [op |-> op, ptr |-> ptr, size |-> size, new_size |-> new_size, ret |-> ret]

(* ------------------------------- state -------------------------------- *)
VARIABLES
    pages,    \* the regions mapped so far, in mapping order: Head + HeadOwned
    local,    \* the thread_local array LOCAL, per thread: the cells that hold
              \* Some(page), by index; every other cell of the 64 holds None
    heap,     \* the fallback allocator's blocks, by address
    live,     \* the blocks the callers hold: [ptr, size] of each layout
    status,   \* "running", "aborted" (a panic took the process down) or "ub"
    last,     \* the call that completed last, with what it did
    gs        \* arguments and results of a pure function applied on its own
              \* (SpecSlot, SpecPage, SpecOf)

vars == <<pages, local, heap, live, status, last, gs>>

\* Each GlobalAlloc method is one step. The methods share no state between
\* threads except the fallback allocator, which is itself thread safe:
\* LOCAL is per thread and a page is touched only by the call that maps it.

\* The record of a call: the calling thread t, the method op, its arguments
\* (ptr, size, new_size), how it ended (kind) and what it returned (ret);
\*   fb         the calls it made to the fallback allocator, in order
\*   ev         the steps of a class-changing realloc, in order
\*   mapped     the pages it mapped
\*   tls        whether it entered LOCAL.with
\*   zeroed     the number of bytes it zeroed with write_bytes
\*   old        the content of the block at ptr before a realloc
\*   after_free the address freed by the call just before (see JustFreed)

NoCall ==
    [ t |-> 0, op |-> "none", ptr |-> NULL, size |-> 0, new_size |-> 0,
      kind |-> "ret", ret |-> NULL, fb |-> <<>>, ev |-> <<>>,
      mapped |-> {}, tls |-> FALSE,
      zeroed |-> 0, old |-> Uninit, after_free |-> NULL ]

\* the page indices a call of alloc added to pages
NewPages(P, P2) == (1..Len(P2)) \ (1..Len(P))

\* a process that has mapped nothing and allocated nothing
Fresh(P, L, h, lv) ==
    /\ P = <<>>
    /\ L = [t \in Threads |-> <<>>]
    /\ h = [a \in FbAddrs |-> NoBlock]
    /\ lv = {}

\* no pure function applied
NoArgs == [a |-> 0, b |-> 0, ra |-> 0, rb |-> 0, done |-> FALSE]

Init ==
    /\ Fresh(pages, local, heap, live)
    /\ status = "running"
    /\ last = NoCall
    /\ gs = NoArgs

(* ------------------------- the thread-local cache --------------------- *)
\* the indices of [Cell<Option<Page>>; MAX_SMALL_SLOT]
CellIndex == 0..(MAX_SMALL_SLOT - 1)

\* the content of cell i of thread t's array
Cell(L, t, i) == IF i \in DOMAIN L[t] THEN L[t][i] ELSE None

\* Cell::take: the cell is left holding None
Take(L, t, i) ==
    IF i \notin DOMAIN L[t] THEN L
    ELSE [L EXCEPT ![t] = [j \in DOMAIN L[t] \ {i} |-> L[t][j]]]

(* ----------------------------- Balloc::alloc -------------------------- *)
\* the small path handing out the first slot of a page it maps
alloc_small_slot(t, size, h, L, P) ==
    LET slot_size == get_slot_size(size)
        base == [heap |-> h, fb |-> <<>>, tls |-> TRUE, local |-> L]
    IN  IF slot_size \in CellIndex /\ Len(P) < MaxPages
        THEN { base @@ [kind |-> "ret", ret |-> PageBase(Len(P) + 1),
                        pages |-> Append(P, Page_new(slot_size))] }
        ELSE { base @@ [kind |-> "oom", ret |-> NULL, pages |-> P] }

(* ----------------------------- Balloc::alloc -------------------------- *)
\* lines 157-161: the small path. LOCAL.with(|local| local[slot_size].take()),
\* else Page::new(slot_size as u8); the page is then dropped (Page has no
\* Drop, the region stays mapped) and null is returned.
alloc_small(t, size, h, L, P) ==
    LET slot_size == get_slot_size(size)
        base == [heap |-> h, fb |-> <<>>, tls |-> TRUE, ret |-> NULL]
    IN  IF slot_size \notin CellIndex
        THEN \* index out of bounds: local[slot_size] panics
             { base @@ [kind |-> "index", local |-> L, pages |-> P] }
        ELSE LET taken == Take(L, t, slot_size)
             IN  IF Cell(L, t, slot_size) # None
                 THEN { base @@ [kind |-> "ret", local |-> taken, pages |-> P] }
                 ELSE \* MmapMut::map_anon(PAGE_SIZE).expect("OOM")
                      { base @@ [kind |-> "oom", local |-> taken, pages |-> P] }
                      \cup
                      { base @@ [kind |-> "ret", local |-> taken,
                                 pages |-> Append(P, Page_new(slot_size % 256))]
                        : x \in IF Len(P) < MaxPages THEN {1} ELSE {} }

\* lines 152-162: every way one call of alloc can end
alloc(t, size, h, L, P) ==
    IF IsLarge(size)
    THEN { [kind |-> "ret", ret |-> r.ret, heap |-> r.heap, local |-> L,
            pages |-> P, tls |-> FALSE,
            fb |-> <<FbCall("alloc", NULL, size, 0, r.ret)>>]
           : r \in Fb_alloc(h, size, FALSE) }
    ELSE alloc_small(t, size, h, L, P)

\* A panic inside the global allocator cannot be caught by the caller: the
\* panic runtime allocates its payload through this same allocator, and the
\* process aborts. Its memory is gone with it; `last` keeps the call.
Panicked ==
    /\ status' = "aborted"
    /\ Fresh(pages', local', heap', live')

\* a call of thread t that returned, leaving the process as o says and the
\* callers holding lv
Returned(t, o, lv) ==
    /\ status' = status
    /\ heap' = o.heap /\ local' = o.local /\ pages' = o.pages
    /\ live' = lv

\* o.kind: "ret" (the call returned), "index" (an index out of bounds
\* panicked) or "oom" (the memory mapper failed and expect("OOM") panicked)
Finish(t, o, lv) == IF o.kind # "ret" THEN Panicked ELSE Returned(t, o, lv)

\* the address the call before this one freed, when that call was a dealloc
\* by the same thread of a block of the size class of `size`
JustFreed(t, size) ==
    IF /\ last.op = "dealloc" /\ last.t = t /\ ~IsLarge(last.size)
       /\ get_slot_size(last.size) = get_slot_size(size)
    THEN last.ptr ELSE NULL

\* the callers hold at most MaxBlocks blocks
MayHoldMore == Cardinality(live) < MaxBlocks

Ready(t) == status = "running"

Alloc(t, size) ==
    /\ Ready(t) /\ MayHoldMore
    /\ \E o \in alloc(t, size, heap, local, pages) :
         /\ Finish(t, o, IF o.ret # NULL
                         THEN live \cup {[ptr |-> o.ret, size |-> size]} ELSE live)
         /\ last' = [NoCall EXCEPT !.t = t, !.op = "alloc", !.size = size,
                       !.kind = o.kind, !.ret = o.ret, !.fb = o.fb,
                       !.mapped = NewPages(pages, o.pages), !.tls = o.tls,
                       !.after_free = JustFreed(t, size)]
    /\ UNCHANGED gs

(* ---------------------------- Balloc::dealloc ------------------------- *)
\* A pointer the fallback allocator does not hold as a block: passing it to
\* System.dealloc or System.realloc, or writing through it, is undefined.
Dangling(ptr) == ptr \notin FbAddrs \/ heap[ptr] = NoBlock

\* Undefined behaviour: nothing is known of the process from here on.
Undefined ==
    /\ status' = "ub"
    /\ Fresh(pages', local', heap', live')
    /\ last' = NoCall
    /\ UNCHANGED gs

\* lines 164-166: self.fallback.dealloc(ptr, layout), whatever the size
dealloc(ptr, size, h) ==
    [heap |-> Fb_dealloc(h, ptr), fb |-> <<FbCall("dealloc", ptr, size, 0, NULL)>>]

Dealloc(t, b) ==
    /\ Ready(t) /\ b \in live
    /\ IF Dangling(b.ptr) THEN Undefined
       ELSE LET o == dealloc(b.ptr, b.size, heap)
            IN  /\ heap' = o.heap
                /\ live' = live \ {b}
                /\ last' = [NoCall EXCEPT !.t = t, !.op = "dealloc", !.ptr = b.ptr,
                              !.size = b.size, !.fb = o.fb]
                /\ UNCHANGED <<pages, local, status, gs>>

(* -------------------------- Balloc::alloc_zeroed ---------------------- *)
\* ptr::write_bytes(result, 0, n) on memory the model holds
ZeroFill(h, ptr, n) ==
    IF ptr \in FbAddrs THEN [h EXCEPT ![ptr] = Zeroed(n)] ELSE h

\* alloc_zeroed without the is_null test: write_bytes runs on every result
alloc_zeroed_unchecked(t, size, h, L, P) ==
    IF IsLarge(size)
    THEN { [kind |-> "ret", ret |-> r.ret, heap |-> r.heap, local |-> L,
            pages |-> P, tls |-> FALSE, zeroed |-> 0,
            fb |-> <<FbCall("alloc_zeroed", NULL, size, 0, r.ret)>>]
           : r \in Fb_alloc(h, size, TRUE) }
    ELSE { IF o.kind # "ret"
           THEN o @@ [zeroed |-> 0]
           ELSE [o EXCEPT !.heap = ZeroFill(o.heap, o.ret, size)]
                @@ [zeroed |-> size]
           : o \in alloc(t, size, h, L, P) }

\* lines 168-177
alloc_zeroed(t, size, h, L, P) ==
    IF IsLarge(size)
    THEN { [kind |-> "ret", ret |-> r.ret, heap |-> r.heap, local |-> L,
            pages |-> P, tls |-> FALSE, zeroed |-> 0,
            fb |-> <<FbCall("alloc_zeroed", NULL, size, 0, r.ret)>>]
           : r \in Fb_alloc(h, size, TRUE) }
    ELSE { IF o.kind # "ret" \/ o.ret = NULL
           THEN o @@ [zeroed |-> 0]
           ELSE [o EXCEPT !.heap = ZeroFill(o.heap, o.ret, size)]
                @@ [zeroed |-> size]
           : o \in alloc(t, size, h, L, P) }

AllocZeroed(t, size) ==
    /\ Ready(t) /\ MayHoldMore
    /\ \E o \in alloc_zeroed(t, size, heap, local, pages) :
         /\ Finish(t, o, IF o.ret # NULL
                         THEN live \cup {[ptr |-> o.ret, size |-> size]} ELSE live)
         /\ last' = [NoCall EXCEPT !.t = t, !.op = "alloc_zeroed", !.size = size,
                       !.kind = o.kind, !.ret = o.ret, !.fb = o.fb,
                       !.mapped = NewPages(pages, o.pages), !.tls = o.tls,
                       !.zeroed = o.zeroed]
    /\ UNCHANGED gs

(* ---------------------------- Balloc::realloc ------------------------- *)
\* what the caller holds once realloc(b, new_size) has returned ret: the new
\* layout at the returned address, or, after a null, still the old block
Moved(b, new_size, ret) ==
    IF ret = NULL THEN live
    ELSE (live \ {b}) \cup {[ptr |-> ret, size |-> new_size]}

\* lines 180-181: the old size is above MAX_ALLOC_SIZE
ReallocLarge(t, b, new_size) ==
    /\ Ready(t) /\ b \in live
    /\ IsLarge(b.size)
    /\ IF Dangling(b.ptr) THEN Undefined
       ELSE \E r \in Fb_realloc(heap, b.ptr, new_size) :
              /\ heap' = r.heap
              /\ live' = Moved(b, new_size, r.ret)
              /\ last' = [NoCall EXCEPT !.t = t, !.op = "realloc", !.ptr = b.ptr,
                            !.size = b.size, !.new_size = new_size, !.ret = r.ret,
                            !.fb = <<FbCall("realloc", b.ptr, b.size, new_size, r.ret)>>,
                            !.old = heap[b.ptr]]
              /\ UNCHANGED <<pages, local, status, gs>>

\* the same-class case handed to the fallback allocator's realloc
ReallocSame_forward(t, b, new_size) ==
    /\ Ready(t) /\ b \in live
    /\ ~IsLarge(b.size)
    /\ get_slot_size(b.size) = get_slot_size(new_size)
    /\ IF Dangling(b.ptr) THEN Undefined
       ELSE \E r \in Fb_realloc(heap, b.ptr, new_size) :
              /\ heap' = r.heap
              /\ live' = Moved(b, new_size, r.ret)
              /\ last' = [NoCall EXCEPT !.t = t, !.op = "realloc", !.ptr = b.ptr,
                            !.size = b.size, !.new_size = new_size, !.ret = r.ret,
                            !.fb = <<FbCall("realloc", b.ptr, b.size, new_size, r.ret)>>,
                            !.old = heap[b.ptr]]
              /\ UNCHANGED <<pages, local, status, gs>>

\* lines 182-183: both sizes in one size class, prev is returned
ReallocSame(t, b, new_size) ==
    /\ Ready(t) /\ b \in live
    /\ ~IsLarge(b.size)
    /\ get_slot_size(b.size) = get_slot_size(new_size)
    /\ live' = Moved(b, new_size, b.ptr)
    /\ last' = [NoCall EXCEPT !.t = t, !.op = "realloc", !.ptr = b.ptr,
                  !.size = b.size, !.new_size = new_size, !.ret = b.ptr,
                  !.old = IF Dangling(b.ptr) THEN Uninit ELSE heap[b.ptr]]
    /\ UNCHANGED <<pages, local, heap, status, gs>>

\* lines 184-187: the class changes; self.dealloc(prev, layout), then
\* self.alloc(new layout), whose result realloc returns
ReallocMove(t, b, new_size) ==
    /\ Ready(t) /\ b \in live
    /\ ~IsLarge(b.size)
    /\ get_slot_size(b.size) # get_slot_size(new_size)
    /\ IF Dangling(b.ptr) THEN Undefined
       ELSE LET d == dealloc(b.ptr, b.size, heap)
            IN  \E o \in alloc(t, new_size, d.heap, local, pages) :
                  /\ Finish(t, o, Moved(b, new_size, o.ret))
                  /\ last' = [NoCall EXCEPT !.t = t, !.op = "realloc",
                                !.ptr = b.ptr, !.size = b.size,
                                !.new_size = new_size,
                                !.kind = o.kind, !.ret = o.ret,
                                !.fb = d.fb \o o.fb,
                                !.ev = <<"dealloc", "alloc">>,
                                !.mapped = NewPages(pages, o.pages),
                                !.tls = o.tls, !.old = heap[b.ptr]]
                  /\ UNCHANGED gs

(* ------------------------------ the callers --------------------------- *)
\* A caller fills a block it holds with a known byte pattern.
Write(t, b) ==
    /\ Ready(t) /\ b \in live
    /\ IF Dangling(b.ptr) THEN Undefined
       ELSE /\ heap[b.ptr] # [pat |-> "A", len |-> b.size]
            /\ heap' = [heap EXCEPT ![b.ptr] = [pat |-> "A", len |-> b.size]]
            /\ UNCHANGED <<pages, local, live, status, last, gs>>

Next ==
    \E t \in Threads :
        \/ \E size \in Sizes : Alloc(t, size)
        \/ \E size \in Sizes : AllocZeroed(t, size)
        \/ \E b \in live : Dealloc(t, b)
        \/ \E b \in live, new_size \in Sizes : ReallocLarge(t, b, new_size)
        \/ \E b \in live, new_size \in Sizes : ReallocSame(t, b, new_size)
        \/ \E b \in live, new_size \in Sizes : ReallocMove(t, b, new_size)

Spec == Init /\ [][Next]_vars

\* the allocator together with callers that write to the blocks they hold
NextW ==
    \/ Next
    \/ \E t \in Threads : \E b \in live : Write(t, b)

SpecW == Init /\ [][NextW]_vars

(* ------------------- get_slot_size on its whole range ----------------- *)
\* every pair of request sizes a <= b of the small path
InitSlot ==
    /\ Fresh(pages, local, heap, live)
    /\ status = "running"
    /\ last = NoCall
    /\ gs \in { [NoArgs EXCEPT !.a = a, !.b = b] :
                a \in 1..MAX_ALLOC_SIZE, b \in 1..MAX_ALLOC_SIZE }
    /\ gs.a <= gs.b

GetSlotSize ==
    /\ ~gs.done
    /\ gs' = [gs EXCEPT !.ra = get_slot_size(gs.a),
                        !.rb = get_slot_size(gs.b), !.done = TRUE]
    /\ UNCHANGED <<pages, local, heap, live, status, last>>

NextSlot == GetSlotSize

SpecSlot == InitSlot /\ [][NextSlot]_vars

(* ----------------------- the operations of a page --------------------- *)
\* Page::release with the region dropped as well
Page_release_unmap(page) == [page EXCEPT !.is_owned = FALSE, !.mapped = FALSE]

\* Page::release: self.head().is_owned.store(false, Release); self is
\* consumed, and Page has no Drop, so the region stays mapped
Page_release(page) == [page EXCEPT !.is_owned = FALSE]

\* Page::unmap: the MmapMut handle is read out of HeadOwned and dropped,
\* which unmaps the region
Page_unmap(page) == [page EXCEPT !.mapped = FALSE]

\* one page of every slot_size 1..MAX_SMALL_SLOT, as Page::new leaves it
InitPage ==
    /\ pages \in { <<Page_new(c)>> : c \in 1..MAX_SMALL_SLOT }
    /\ local = [t \in Threads |-> <<>>]
    /\ heap = [a \in FbAddrs |-> NoBlock]
    /\ live = {}
    /\ status = "running"
    /\ last = NoCall
    /\ gs = NoArgs

\* release and unmap take the Page by value: one of them, once
Consumed == last.op \in {"release", "unmap"}

\* PageRef::max_len, read through the header of a mapped page
MaxLen ==
    /\ pages[1].mapped /\ ~gs.done
    /\ gs' = [gs EXCEPT !.a = pages[1].slot_size, !.ra = max_len(pages[1]),
                        !.done = TRUE]
    /\ UNCHANGED <<pages, local, heap, live, status, last>>

Release ==
    /\ ~Consumed
    /\ pages' = <<Page_release(pages[1])>>
    /\ last' = [NoCall EXCEPT !.op = "release"]
    /\ UNCHANGED <<local, heap, live, status, gs>>

Unmap ==
    /\ ~Consumed
    /\ pages' = <<Page_unmap(pages[1])>>
    /\ last' = [NoCall EXCEPT !.op = "unmap"]
    /\ UNCHANGED <<local, heap, live, status, gs>>

NextPage == MaxLen \/ Release \/ Unmap

SpecPage == InitPage /\ [][NextPage]_vars

(* --------------------- PageRef::of on its whole range ----------------- *)
\* every address b + k of the regions the model knows: the pages the mapper
\* hands out and the regions the fallback blocks lie in
InitOf ==
    /\ Fresh(pages, local, heap, live)
    /\ status = "running"
    /\ last = NoCall
    /\ gs \in { [NoArgs EXCEPT !.a = PageBase(i), !.b = k] :
                i \in 1..(MaxPages + MaxBlocks), k \in 0..(PAGE_SIZE - 1) }

\* of(b + k), and of applied to its own result
PageRefOf ==
    /\ ~gs.done
    /\ gs' = [gs EXCEPT !.ra = PageRef_of(gs.a + gs.b),
                        !.rb = PageRef_of(PageRef_of(gs.a + gs.b)),
                        !.done = TRUE]
    /\ UNCHANGED <<pages, local, heap, live, status, last>>

NextOf == PageRefOf

SpecOf == InitOf /\ [][NextOf]_vars

(* ============================ the claims ============================== *)
\* the call that completed last took the small path of `op`
SmallCall(op) ==
    /\ status # "ub" /\ last.op = op
    /\ last.size >= 1 /\ last.size <= MAX_ALLOC_SIZE

\* the call that completed last was `op` with a size above the ceiling
LargeCall(op) ==
    /\ status # "ub" /\ last.op = op
    /\ last.size > MAX_ALLOC_SIZE

\* ptr lies in the slot region of page i
InSlab(ptr, i) == ptr >= PageBase(i) /\ ptr < PageBase(i) + PAGE_BUF_SIZE

\* the page still has a slot to give: a free list is not empty, or the bump
\* cursor has not reached max_len
HasCapacity(page) ==
    \/ page.owned_next_free # U16_MAX
    \/ page.next_free # USIZE_MAX
    \/ page.length < max_len(page)

\* C1: for every request size n with 1 <= n <= 512, whenever the memory mapper
\* does not fail, alloc returns a non-null address inside the slot region of
\* a page whose slot_size is size_class(n); never null, never a panic.
C1_SmallAllocReturnsSlot ==
    (SmallCall("alloc") /\ last.kind # "oom") =>
        /\ last.kind = "ret"
        /\ last.ret # NULL
        /\ \E i \in 1..Len(pages) :
              /\ pages[i].slot_size = get_slot_size(last.size)
              /\ InSlab(last.ret, i)

\* C3: when a small alloc returns and the page it used still has capacity,
\* that page is back in the calling thread's cache cell for the size class
\* (so that the next alloc of the class on the thread maps nothing).
C3_PageBackInCache ==
    (SmallCall("alloc") /\ last.kind = "ret") =>
        LET c == get_slot_size(last.size)
            cell == Cell(local, last.t, c)
        IN  \/ /\ cell \in 1..Len(pages)
               /\ pages[cell].slot_size = c
            \/ \A i \in 1..Len(pages) :
                  pages[i].slot_size = c => ~HasCapacity(pages[i])

\* C4: reuse-first: an alloc that directly follows the same thread's dealloc
\* of a block of the same size class returns the address that was freed.
C4_ReuseFirst ==
    (SmallCall("alloc") /\ last.kind = "ret" /\ last.after_free # NULL) =>
        last.ret = last.after_free

\* C5: dealloc(ptr, size) with size <= 512 does not forward the pointer to the
\* fallback allocator (it pushes the slot on a free list of the page found
\* by masking ptr); only size > 512 is forwarded.
C5_SmallDeallocNotForwarded ==
    /\ SmallCall("dealloc") => last.fb = <<>>
    /\ LargeCall("dealloc") =>
          last.fb = <<FbCall("dealloc", last.ptr, last.size, 0, NULL)>>

\* the content held at a fallback address
ContentAt(ptr) == IF ptr \in FbAddrs THEN heap[ptr] ELSE Uninit

\* of the first n bytes, those that `old` is known to hold are held by `new`
KeepsPrefix(old, new, n) ==
    LET k == IF old.len < n THEN old.len ELSE n
    IN  k > 0 => (new.pat = old.pat /\ new.len >= k)

\* C6: realloc preserves content: when old_size and new_size fall in
\* different size classes, the first min(old_size, new_size) bytes of the
\* returned block equal the bytes the old block held before the call.
C6_ReallocKeepsContent ==
    ( /\ status # "ub" /\ last.op = "realloc" /\ last.kind = "ret"
      /\ last.ret # NULL
      /\ get_slot_size(last.size) # get_slot_size(last.new_size) ) =>
        KeepsPrefix(last.old, ContentAt(last.ret),
                    IF last.size < last.new_size THEN last.size
                    ELSE last.new_size)

\* the position of step e in the steps of a call, 0 when it did not happen
StepOf(ev, e) ==
    IF \E i \in 1..Len(ev) : ev[i] = e
    THEN CHOOSE i \in 1..Len(ev) : ev[i] = e ELSE 0

\* C7: in a realloc that changes size class the steps are: allocate the new
\* block, copy, deallocate the old block; the old block is never deallocated
\* before the new one is allocated and the content copied.
C7_AllocCopyDealloc ==
    ( /\ SmallCall("realloc") /\ last.kind = "ret"
      /\ get_slot_size(last.size) # get_slot_size(last.new_size) ) =>
        /\ StepOf(last.ev, "alloc") > 0
        /\ StepOf(last.ev, "alloc") < StepOf(last.ev, "copy")
        /\ StepOf(last.ev, "copy") < StepOf(last.ev, "dealloc")

\* C8: for every size n > 512, alloc, alloc_zeroed, dealloc and realloc (old
\* size > 512) call the matching fallback operation exactly once with the
\* same arguments, return its result unchanged, do not touch the
\* thread-local cache and map no page.
C8_LargeForwarded ==
    \A op \in {"alloc", "alloc_zeroed", "dealloc", "realloc"} :
        LargeCall(op) =>
            /\ last.kind = "ret"
            /\ last.fb = <<FbCall(op, last.ptr, last.size, last.new_size,
                                  last.ret)>>
            /\ ~last.tls
            /\ last.mapped = {}
            /\ last.zeroed = 0

\* a realloc of a block above the ceiling that the fallback moved or resized
C8_Witness == LargeCall("realloc") /\ last.ret # NULL

\* the least k with k * UNIT_SIZE >= n
CeilUnits(n) == CHOOSE k \in 0..n : k * UNIT_SIZE >= n /\ (k - 1) * UNIT_SIZE < n

\* C9: for every n in 1..512, get_slot_size(n) is ceil(n / 8), lies in 1..64,
\* is non-decreasing in n, and get_slot_size(n) * 8 is at least n and less
\* than n + 8.
C9_SlotSize ==
    gs.done =>
        /\ gs.ra = CeilUnits(gs.a)
        /\ gs.ra \in 1..MAX_SMALL_SLOT
        /\ gs.ra <= gs.rb
        /\ gs.ra * UNIT_SIZE >= gs.a
        /\ gs.ra * UNIT_SIZE - gs.a < UNIT_SIZE

\* the two ends of the range, with the last class reached
C9_Witness ==
    gs.done /\ gs.a = 1 /\ gs.b = MAX_ALLOC_SIZE /\ gs.rb = MAX_SMALL_SLOT

\* C10: alloc_zeroed(size) with size <= 512 returns a block obtained as
\* alloc(size) obtains it, with exactly the first `size` bytes set to zero.
C10_SmallAllocZeroed ==
    (SmallCall("alloc_zeroed") /\ last.kind # "oom") =>
        /\ last.kind = "ret"
        /\ last.ret # NULL
        /\ last.zeroed = last.size
        /\ \E i \in 1..Len(pages) :
              /\ pages[i].slot_size = get_slot_size(last.size)
              /\ InSlab(last.ret, i)

\* the threads that hold page i in their cache cell for its size class
HeldBy(i) == { t \in Threads : Cell(local, t, pages[i].slot_size) = i }

\* C11: ownership invariant: between allocator calls, for every mapped page,
\* is_owned is true if and only if the page is held in exactly one thread's
\* cache cell for its size class (a page that left the cache without being
\* put back has is_owned = false).
C11_OwnedIffCached ==
    status = "running" =>
        \A i \in 1..Len(pages) :
            pages[i].mapped =>
                (pages[i].is_owned <=> Cardinality(HeldBy(i)) = 1)

\* C13: for every request size n in 1..512 the index alloc uses to look up
\* the thread-local cache is a valid index of the 64-cell array: the lookup
\* never goes out of bounds, sizes 505..512 (class 64) included.
C13_CacheIndexInBounds ==
    (status # "ub" /\ last.tls /\ last.op \in {"alloc", "alloc_zeroed", "realloc"})
        => last.kind # "index"

\* C14: for every size class c in 1..64, max_len of a page with slot_size c
\* is floor(slab_bytes / (c * 8)), slab_bytes being the page size minus both
\* headers; it is at least 1, and every slot i < max_len has its byte range
\* [i*c*8, (i+1)*c*8) inside the slab region, below the embedded headers.
C14_MaxLenFitsSlab ==
    gs.done =>
        LET c == gs.a
        IN  /\ gs.ra = (PAGE_SIZE - HEAD_SIZE - HEAD_OWNED_SIZE) \div (c * UNIT_SIZE)
            /\ gs.ra >= 1
            /\ \A i \in 0..(gs.ra - 1) :
                  (i + 1) * c * UNIT_SIZE <= HEAD_OWNED_OFFSET

\* C15: a page created by Page::new(c) starts with slot_size = c, is_owned =
\* true, shared free head = empty sentinel, cursor (length) = 0 and exclusive
\* free head = empty sentinel, and alloc creates a page only when the calling
\* thread's cache cell for class c is empty.
C15_FreshPage ==
    [][ \A i \in (1..Len(pages')) \ (1..Len(pages)) :
          LET c == get_slot_size(IF last'.op = "realloc" THEN last'.new_size
                                 ELSE last'.size)
          IN  /\ pages'[i].slot_size = c
              /\ pages'[i].is_owned = TRUE
              /\ pages'[i].next_free = USIZE_MAX
              /\ pages'[i].length = 0
              /\ pages'[i].owned_next_free = U16_MAX
              /\ pages'[i].mapped
              /\ Cell(local, last'.t, c) = None ]_vars

\* an alloc that mapped a page and returned
C15_Witness ==
    /\ status = "running" /\ last.op = "alloc" /\ last.kind = "ret"
    /\ last.mapped # {}
    /\ \A i \in last.mapped : pages[i].slot_size = get_slot_size(last.size)

\* C16: Page::release changes only is_owned (to false): it does not unmap the
\* page and leaves slot_size, the shared free head, the cursor, the exclusive
\* free head and the region handle unchanged; the slot_size of a page never
\* changes after creation, whatever the operation.
C16_ReleaseOnlyDisowns ==
    [][ /\ \A i \in 1..Len(pages) :
             i <= Len(pages') => pages'[i].slot_size = pages[i].slot_size
        /\ (last'.op = "release" /\ last.op # "release") =>
             /\ Len(pages') = Len(pages)
             /\ pages'[1].is_owned = FALSE
             /\ pages'[1].mapped = pages[1].mapped
             /\ pages'[1].slot_size = pages[1].slot_size
             /\ pages'[1].next_free = pages[1].next_free
             /\ pages'[1].length = pages[1].length
             /\ pages'[1].owned_next_free = pages[1].owned_next_free ]_vars

\* a page that was released: disowned and still mapped
C16_Witness ==
    last.op = "release" /\ ~pages[1].is_owned /\ pages[1].mapped

\* C17: realloc with old size <= 512 and new_size in the size class of the old
\* size returns the original pointer and performs no allocation, no
\* deallocation, no fallback call and no change to any page or cache state.
C17_SameClassInPlace ==
    [][ ( /\ status' # "ub" /\ last'.op = "realloc"
          /\ last'.size <= MAX_ALLOC_SIZE
          /\ get_slot_size(last'.size) = get_slot_size(last'.new_size) ) =>
            /\ last'.kind = "ret"
            /\ last'.ret = last'.ptr
            /\ last'.fb = <<>> /\ last'.ev = <<>>
            /\ last'.mapped = {} /\ ~last'.tls
            /\ pages' = pages /\ local' = local /\ heap' = heap
            /\ status' = status ]_vars

\* a realloc from 41 to 48 bytes or back, both of class 6
C17_Witness ==
    /\ status = "running" /\ last.op = "realloc"
    /\ last.size <= MAX_ALLOC_SIZE /\ last.size # last.new_size
    /\ get_slot_size(last.size) = get_slot_size(last.new_size)
    /\ last.ret = last.ptr /\ last.ret # NULL

\* C18: for every page base b (a multiple of 4096) and every offset k in
\* 0..4095, PageRef::of(b + k) is b, and masking is idempotent:
\* of(of(p)) = of(p); the header's address maps to its page as well.
C18_MaskToBase ==
    gs.done =>
        /\ gs.a % PAGE_SIZE = 0 /\ gs.b \in 0..(PAGE_SIZE - 1)
        /\ gs.ra = gs.a
        /\ gs.rb = gs.ra

\* the address of the Head of the first page, masked down to the page
C18_Witness ==
    gs.done /\ gs.a = PageBase(1) /\ gs.b = HEAD_OFFSET /\ gs.ra = PageBase(1)

\* C19: allocator-origin consistency: over any sequence of alloc,
\* alloc_zeroed, realloc and dealloc with matching layouts, every non-null
\* pointer passed to the fallback allocator's dealloc or realloc was produced
\* by the fallback allocator, and no pointer produced by the fallback
\* allocator is treated as a slot of a slab page (it goes back to the
\* fallback allocator, or is returned as it is).
C19_OriginConsistent ==
    /\ \A b \in live : b.ptr \in FbAddrs
    /\ \A i \in 1..Len(last.fb) :
          last.fb[i].op \in {"dealloc", "realloc"} => last.fb[i].ptr \in FbAddrs
    /\ (status # "ub" /\ last.op \in {"dealloc", "realloc"}
        /\ last.ptr \in FbAddrs) =>
          IF last.fb = <<>>
          THEN last.op = "realloc" /\ last.ret = last.ptr
          ELSE /\ last.fb[1].ptr = last.ptr
               /\ last.fb[1].op \in {"dealloc", "realloc"}

\* a block of at most 512 bytes grown over the ceiling: the old block went to
\* the fallback's dealloc, the new one came from the fallback's alloc
C19_Witness ==
    /\ status = "running" /\ last.op = "realloc"
    /\ last.size <= MAX_ALLOC_SIZE /\ last.new_size > MAX_ALLOC_SIZE
    /\ Len(last.fb) = 2 /\ last.ret \in FbAddrs

\* C20: alloc_zeroed with size <= 512 never writes through a null pointer:
\* when the underlying alloc returns null, alloc_zeroed returns null and
\* writes no bytes.
C20_NullNotZeroed ==
    (SmallCall("alloc_zeroed") /\ last.ret = NULL) => last.zeroed = 0

\* a small alloc_zeroed whose alloc mapped a page and returned null
C20_Witness ==
    /\ SmallCall("alloc_zeroed") /\ last.kind = "ret" /\ last.ret = NULL
    /\ last.mapped # {} /\ last.zeroed = 0

====
